---- MODULE Spec2Model ----
(***************************************************************************)
(* The Redis client of the BioIndex (src/lib/client.py): table registry,   *)
(* record codec, point/region index and table-scoped deletion, over a      *)
(* model of the Redis commands the client issues.                          *)
(*                                                                         *)
(* Store keys are kept in one variable per key family:                     *)
(*   table_id          the counter key 'table_id'                          *)
(*   tablePath[p]      the string keys 'table/{path}'                      *)
(*   tableMeta[id]     the hash keys 'table:{id}'                          *)
(*   chrKey[<<k,c>>]   the chromosome keys '{key}:{chromosome}'            *)
(*   bucketKey[<<k,c,b>>]  the bucket keys '{key}:{chromosome}:{bucket}'   *)
(* ret is the outcome of the last call; hist, the pairs given to           *)
(* insert_records so far, is a history variable the properties read.       *)
(* calls[c] is the call that client c is in the middle of, in the          *)
(* specification where calls run one store command at a time.              *)
(* Keyspace names hold no ':' so the families do not collide.              *)
(* Bytes are numbers 0..255 and byte strings are sequences of them.        *)
(***************************************************************************)
EXTENDS Integers, Sequences, FiniteSets, TLC

VARIABLES table_id, tablePath, tableMeta, chrKey, bucketKey, ret, hist, reader, probe,
          calls

store == <<table_id, tablePath, tableMeta, chrKey, bucketKey>>
registry == <<table_id, tablePath, tableMeta>>
vars == <<table_id, tablePath, tableMeta, chrKey, bucketKey, ret, hist, reader, probe,
          calls>>

----------------------------------------------------------------------------
(* msgpack *)

\* the msgpack fixarray(3) marker, b'\x93'
ArrayMarker == 147
\* the glob wildcard b'*' that ends the deletion pattern
Star == 42
\* width of a region bucket
BucketWidth == 20000

\* msgpack.dumps of a non-negative integer
packInt(n) ==
    IF n < 128 THEN <<n>>
    ELSE IF n < 256 THEN <<204, n>>
    ELSE IF n < 65536 THEN <<205, n \div 256, n % 256>>
    ELSE <<206, n \div 16777216, (n \div 65536) % 256, (n \div 256) % 256, n % 256>>

\* Record.pack(): the record as the msgpack array (table_id, offset, length)
pack(t, offset, length) ==
    <<ArrayMarker>> \o packInt(t) \o packInt(offset) \o packInt(length)

\* msgpack: the integer that starts at byte i of b, and the index after it
unpackInt(b, i) ==
    IF b[i] < 128 THEN [val |-> b[i], next |-> i + 1]
    ELSE IF b[i] = 204 THEN [val |-> b[i + 1], next |-> i + 2]
    ELSE IF b[i] = 205 THEN [val |-> b[i + 1] * 256 + b[i + 2], next |-> i + 3]
    ELSE [val |-> ((b[i + 1] * 256 + b[i + 2]) * 256 + b[i + 3]) * 256 + b[i + 4],
          next |-> i + 5]

\* msgpack.loads of a stored record: the tuple <<table_id, offset, length>>
loads(r) ==
    LET t == unpackInt(r, 2)
        o == unpackInt(r, t.next)
        l == unpackInt(r, o.next)
    IN  <<t.val, o.val, l.val>>

----------------------------------------------------------------------------
(* The glob matcher behind SCAN ... MATCH (Redis stringmatchlen), on bytes *)

RECURSIVE stripStars(_)
stripStars(p) == IF p # <<>> /\ p[1] = 42 THEN stripStars(Tail(p)) ELSE p

\* a run of '*' counts as one '*'
RECURSIVE collapseStars(_)
collapseStars(p) ==
    IF Len(p) >= 2 /\ p[2] = 42 THEN collapseStars(Tail(p)) ELSE p

\* the body of a '[...]' class, q being the pattern after '[' (and '^'):
\* whether byte ch is in the class, and the pattern that follows the class
RECURSIVE classScan(_, _, _)
classScan(q, ch, m) ==
    IF Len(q) >= 2 /\ q[1] = 92
        THEN classScan(Tail(Tail(q)), ch, m \/ q[2] = ch)
    ELSE IF q = <<>> THEN [rest |-> <<>>, match |-> m]
    ELSE IF q[1] = 93 THEN [rest |-> Tail(q), match |-> m]
    ELSE IF Len(q) >= 3 /\ q[2] = 45
        THEN LET lo == IF q[1] <= q[3] THEN q[1] ELSE q[3]
                 hi == IF q[1] <= q[3] THEN q[3] ELSE q[1]
             IN  classScan(SubSeq(q, 4, Len(q)), ch, m \/ (lo <= ch /\ ch <= hi))
    ELSE classScan(Tail(q), ch, m \/ q[1] = ch)

RECURSIVE stringmatch(_, _)
\* after one pattern element consumed one byte
matchRest(p, s) == IF s = <<>> THEN stripStars(p) = <<>> ELSE stringmatch(p, s)

stringmatch(p, s) ==
    IF p = <<>> \/ s = <<>> THEN p = <<>> /\ s = <<>>
    ELSE IF p[1] = 42 THEN
        LET q == collapseStars(p)
        IN  \/ Len(q) = 1
            \/ \E k \in 1..Len(s) : stringmatch(Tail(q), SubSeq(s, k, Len(s)))
    ELSE IF p[1] = 63 THEN matchRest(Tail(p), Tail(s))
    ELSE IF p[1] = 91 THEN
        LET neg == Len(p) >= 2 /\ p[2] = 94
            c   == classScan(IF neg THEN Tail(Tail(p)) ELSE Tail(p), s[1], FALSE)
        IN  /\ (c.match # neg)
            /\ matchRest(c.rest, Tail(s))
    ELSE LET q == IF p[1] = 92 /\ Len(p) >= 2 THEN Tail(p) ELSE p
         IN  /\ q[1] = s[1]
             /\ matchRest(Tail(q), Tail(s))

\* delete_records: the array marker, the packed table id, then the wildcard
matchPattern(t) == <<ArrayMarker>> \o packInt(t) \o <<Star>>

----------------------------------------------------------------------------
(* Inputs *)

\* longest batch one insert_records call carries
MaxBatch == 2
\* largest coordinate of a locus or of a query range
MaxCoord == 59999
\* registrations after the counter value the store starts with
MaxTables == 2

Keys == {"k1", "k2"}
\* chromosomes(): the first names of the fixed chromosome list
chromosomes == <<"1", "2">>
ChrNames == {chromosomes[i] : i \in DOMAIN chromosomes}
Buckets == 0..(MaxCoord \div BucketWidth)

SNPLocus(c, p) ==
    [cls |-> "SNPLocus", chromosome |-> c, position |-> p, start |-> p, stop |-> p]
RegionLocus(c, a, b) ==
    [cls |-> "RegionLocus", chromosome |-> c, position |-> a, start |-> a, stop |-> b]
Record(t, offset, length) == [table_id |-> t, offset |-> offset, length |-> length]

\* the bucket range with its first bucket left out of the call: range(b // 20000 + 1)
bucketRangeFromZero(a, b) == 0..(b \div BucketWidth)

\* range(a // 20000, b // 20000 + 1)
bucketRange(a, b) == (a \div BucketWidth)..(b \div BucketWidth)

----------------------------------------------------------------------------
(* Redis values and commands *)

NoZset == [m \in {} |-> 0]
NoKey == [type |-> "none", zset |-> NoZset, set |-> {}]
ZsetKey(z) == IF DOMAIN z = {} THEN NoKey ELSE [type |-> "zset", zset |-> z, set |-> {}]
SetKey(s) == IF s = {} THEN NoKey ELSE [type |-> "set", zset |-> NoZset, set |-> s]

\* a queued command; key is <<k, c>> (chromosome key) or <<k, c, b>> (bucket key)
ZADD(key, member, score) ==
    [cmd |-> "ZADD", key |-> key, members |-> {member}, score |-> score]
SADD(key, member) == [cmd |-> "SADD", key |-> key, members |-> {member}, score |-> 0]
ZREM(key, members) == [cmd |-> "ZREM", key |-> key, members |-> members, score |-> 0]
SREM(key, members) == [cmd |-> "SREM", key |-> key, members |-> members, score |-> 0]

\* TYPE key
type(db, key) ==
    IF Len(key) = 2 THEN db.chr[key].type
    ELSE IF db.bucket[key] = {} THEN "none" ELSE "set"

\* EXISTS key
exists(db, key) == type(db, key) # "none"

\* one command run by EXEC: the store after it, and whether it replied an error
\* (WRONGTYPE when the key holds the other kind of value)
run(db, c) ==
    IF Len(c.key) = 3 THEN
        \* bucket keys only ever hold sets
        IF c.cmd = "SADD"
            THEN [db |-> [db EXCEPT !.bucket[c.key] = @ \cup c.members], err |-> FALSE]
        ELSE IF c.cmd = "SREM"
            THEN [db |-> [db EXCEPT !.bucket[c.key] = @ \ c.members], err |-> FALSE]
        ELSE [db |-> db, err |-> db.bucket[c.key] # {}]
    ELSE LET v == db.chr[c.key] IN
        IF c.cmd = "ZADD" THEN
            IF v.type = "set" THEN [db |-> db, err |-> TRUE]
            ELSE [db |-> [db EXCEPT !.chr[c.key] =
                            ZsetKey([m \in DOMAIN v.zset \cup c.members |->
                                       IF m \in c.members THEN c.score ELSE v.zset[m]])],
                  err |-> FALSE]
        ELSE IF c.cmd = "SADD" THEN
            IF v.type = "zset" THEN [db |-> db, err |-> TRUE]
            ELSE [db |-> [db EXCEPT !.chr[c.key] = SetKey(v.set \cup c.members)],
                  err |-> FALSE]
        ELSE IF c.cmd = "ZREM" THEN
            IF v.type = "set" THEN [db |-> db, err |-> TRUE]
            ELSE [db |-> [db EXCEPT !.chr[c.key] =
                            ZsetKey([m \in DOMAIN v.zset \ c.members |-> v.zset[m]])],
                  err |-> FALSE]
        ELSE
            IF v.type = "zset" THEN [db |-> db, err |-> TRUE]
            ELSE [db |-> [db EXCEPT !.chr[c.key] = SetKey(v.set \ c.members)],
                  err |-> FALSE]

\* EXEC runs every queued command in order; a command that replies an error
\* does not stop or undo the others
RECURSIVE runAll(_, _)
runAll(db, cmds) ==
    IF cmds = <<>> THEN [db |-> db, err |-> FALSE]
    ELSE LET r == run(db, Head(cmds))
             s == runAll(r.db, Tail(cmds))
         IN  [db |-> s.db, err |-> r.err \/ s.err]

\* the queued commands sent one by one outside a transaction: those before the
\* first refused command are applied
RECURSIVE executeEach(_, _)
executeEach(db, cmds) ==
    IF cmds = <<>> THEN [db |-> db, err |-> FALSE]
    ELSE IF Head(cmds).members = {} THEN [db |-> db, err |-> TRUE]
    ELSE LET r == run(db, Head(cmds))
             s == executeEach(r.db, Tail(cmds))
         IN  [db |-> s.db, err |-> r.err \/ s.err]

\* pipe.execute() of a MULTI pipeline: a command refused when queued (ZREM or
\* SREM without a member: wrong number of arguments) discards the transaction
execute(db, cmds) ==
    IF \E i \in 1..Len(cmds) : cmds[i].members = {}
        THEN [db |-> db, err |-> TRUE]
        ELSE runAll(db, cmds)

\* the store's data keys as one value
data == [chr |-> chrKey, bucket |-> bucketKey]

----------------------------------------------------------------------------
(* Interval index: insert_records, count_records, query_records *)

\* the commands one region record queues for buckets lo..hi, in order
RECURSIVE bucketCommands(_, _, _, _)
bucketCommands(base_chr, value, lo, hi) ==
    IF lo > hi THEN <<>>
    ELSE <<SADD(base_chr, base_chr \o <<lo>>), SADD(base_chr \o <<lo>>, value)>>
            \o bucketCommands(base_chr, value, lo + 1, hi)

\* pairCommands with the last bucket of a region left out (stop // 20000
\* taken as an exclusive end)
pairCommandsNoLast(base_key, pair) ==
    LET locus == pair[1]
        record == pair[2]
        value == pack(record.table_id, record.offset, record.length)
        base_chr == <<base_key, locus.chromosome>>
    IN  IF locus.cls = "SNPLocus"
            THEN <<ZADD(base_chr, value, locus.position)>>
            ELSE bucketCommands(base_chr, value,
                                locus.start \div BucketWidth,
                                (locus.stop \div BucketWidth) - 1)

\* the commands one (locus, record) pair queues
pairCommands(base_key, pair) ==
    LET locus == pair[1]
        record == pair[2]
        value == pack(record.table_id, record.offset, record.length)
        base_chr == <<base_key, locus.chromosome>>
    IN  IF locus.cls = "SNPLocus"
            THEN <<ZADD(base_chr, value, locus.position)>>
            ELSE bucketCommands(base_chr, value,
                                locus.start \div BucketWidth, locus.stop \div BucketWidth)

RECURSIVE insertCommands(_, _)
insertCommands(base_key, pairs) ==
    IF pairs = <<>> THEN <<>>
    ELSE pairCommands(base_key, Head(pairs)) \o insertCommands(base_key, Tail(pairs))

\* how the last call ended: err names the exception it raised, "" for none
Returned(op, id, err) == [op |-> op, id |-> id, err |-> err]

insert_records(base_key, pairs) ==
    /\ UNCHANGED registry
    /\ \/ \* the pipeline is sent and EXEC runs it
          LET r == execute(data, insertCommands(base_key, pairs))
          IN  /\ chrKey' = r.db.chr
              /\ bucketKey' = r.db.bucket
              /\ ret' = Returned("insert_records", 0,
                                IF r.err THEN "ResponseError" ELSE "")
       \/ \* the connection fails before EXEC reaches the store
          /\ UNCHANGED <<chrKey, bucketKey>>
          /\ ret' = Returned("insert_records", 0, "ConnectionError")

\* ZCOUNT key start stop, ZRANGEBYSCORE key start stop (both ends inclusive)
zrangebyscore(z, start, stop) == {m \in DOMAIN z : start <= z[m] /\ z[m] <= stop}
zcount(z, start, stop) == Cardinality(zrangebyscore(z, start, stop))

\* SMEMBERS of a bucket key ('{chr_key}:{i}'); a key never written is empty
smembers(key, chromosome, i) ==
    IF i \in Buckets THEN bucketKey[<<key, chromosome, i>>] ELSE {}

\* count_records with stop taken as an exclusive end of the score range
count_recordsExclusive(key, chromosome, start, stop) ==
    LET chr_key == <<key, chromosome>>
    IN  IF chrKey[chr_key].type = "zset"
            THEN zcount(chrKey[chr_key].zset, start, stop - 1)
            ELSE Cardinality(UNION {{<<i, m>> : m \in smembers(key, chromosome, i)} :
                                       i \in bucketRange(start, stop)})

count_records(key, chromosome, start, stop) ==
    LET chr_key == <<key, chromosome>>
    IN  IF chrKey[chr_key].type = "zset"
            THEN zcount(chrKey[chr_key].zset, start, stop)
            ELSE Cardinality(UNION {{<<i, m>> : m \in smembers(key, chromosome, i)} :
                                       i \in bucketRange(start, stop)})

\* the loop that unpacks the records and groups them: the result maps a
\* table_id to its (offset, length) entries; the order of a table's list is
\* not modelled
unpackRecords(query_results) ==
    [t \in {loads(r)[1] : r \in query_results} |->
        {<<loads(r)[2], loads(r)[3]>> : r \in {x \in query_results : loads(x)[1] = t}}]

query_records(key, chromosome, start, stop) ==
    LET chr_key == <<key, chromosome>>
        query_results ==
            IF chrKey[chr_key].type = "zset"
                THEN zrangebyscore(chrKey[chr_key].zset, start, stop)
                ELSE UNION {smembers(key, chromosome, i) : i \in bucketRange(start, stop)}
    IN  unpackRecords(query_results)

----------------------------------------------------------------------------
(* The index alone: insert_records calls on an empty store *)

\* rows of two source files (tables 1 and 2): a locus and the record at it
IndexPairs ==
    { <<SNPLocus("1", 100), Record(1, 0, 10)>>,
      <<SNPLocus("1", 5000), Record(1, 10, 10)>>,
      <<SNPLocus("1", 20000), Record(2, 0, 10)>>,
      <<SNPLocus("1", 20001), Record(2, 10, 10)>>,
      <<RegionLocus("1", 19990, 20010), Record(1, 200, 10)>>,
      <<RegionLocus("1", 100, 5000), Record(2, 200, 10)>>,
      <<RegionLocus("2", 45000, 45010), Record(2, 300, 10)>>,
      <<RegionLocus("2", 30000, 20000), Record(1, 300, 10)>> }

\* the batches of at most MaxBatch pairs of P, no pair twice in a batch
Batches(P) ==
    {b \in UNION {[1..n -> P] : n \in 1..MaxBatch} :
        \A i, j \in DOMAIN b : i # j => b[i] # b[j]}

\* the query ranges the properties read
Ranges ==
    { <<0, 19000>>, <<100, 20000>>, <<25000, 26000>>, <<40000, 41000>>,
      <<20001, 20001>>, <<5000, 19990>>, <<0, MaxCoord>> }

NoReturn == Returned("none", 0, "")
NoHist == [sent |-> {}, regions |-> {}]
Idle == [pc |-> "idle"]
\* no call of the stepwise clients is in progress
NoCalls == <<>>

InitStore(counter) ==
    /\ table_id = counter
    /\ tablePath = [p \in {} |-> 0]
    /\ tableMeta = [i \in {} |-> 0]
    /\ chrKey = [k \in Keys \X ChrNames |-> NoKey]
    /\ bucketKey = [k \in Keys \X ChrNames \X Buckets |-> {}]
    /\ ret = NoReturn
    /\ hist = NoHist

\* hist after a call of insert_records(base_key, pairs) that ended as ret':
\* sent holds the pairs of the calls whose transaction the store ran, regions
\* the region pairs of the calls that returned normally
Logged(base_key, pairs) ==
    LET P == {<<base_key, pairs[i]>> : i \in 1..Len(pairs)}
    IN  hist' = [sent |-> IF ret'.err = "ConnectionError" THEN hist.sent
                                                          ELSE hist.sent \cup P,
                 regions |-> IF ret'.err # "" THEN hist.regions
                             ELSE hist.regions \cup {q \in P : q[2][1].cls = "RegionLocus"}]

InitIndex == InitStore(0) /\ reader = Idle /\ probe = Idle /\ calls = NoCalls

NextIndex ==
    \E pairs \in Batches(IndexPairs) :
        /\ insert_records("k1", pairs)
        /\ Logged("k1", pairs)
        /\ UNCHANGED <<reader, probe, calls>>

SpecIndex == InitIndex /\ [][NextIndex]_vars

----------------------------------------------------------------------------
(* Properties of the index (SpecIndex) *)

\* every write of the queued commands is in the store db
Written(db, cmds) ==
    \A i \in 1..Len(cmds) :
        LET c == cmds[i] IN
        IF Len(c.key) = 3 THEN c.members \subseteq db.bucket[c.key]
        ELSE IF c.cmd = "ZADD"
            THEN /\ db.chr[c.key].type = "zset"
                 /\ \A m \in c.members :
                        m \in DOMAIN db.chr[c.key].zset /\ db.chr[c.key].zset[m] = c.score
            ELSE /\ db.chr[c.key].type = "set"
                 /\ c.members \subseteq db.chr[c.key].set

\* C1: insert_records is all-or-nothing at the store: after a call, however it
\* ended, the store holds every write of the batch or is as it was before
C1_AllOrNothing ==
    [][\A pairs \in Batches(IndexPairs) :
          insert_records("k1", pairs) =>
              \/ data' = data
              \/ Written(data', insertCommands("k1", pairs))]_vars

\* the number of entries of a query_records result, over all its tables
total(results) == Cardinality(UNION {{<<t, e>> : e \in results[t]} : t \in DOMAIN results})

Chromosome(q) == q[2][1].chromosome
Intersects(locus, r) == locus.start <= r[2] /\ r[1] <= locus.stop

PointsOnly(key, c) ==
    \A q \in hist.sent : (q[1] = key /\ Chromosome(q) = c) => q[2][1].cls = "SNPLocus"

\* C4: point counts are exact: on a chromosome that was given point records only,
\* count_records is the number of records put there whose position lies in
\* [start, stop], both ends included, and is the number of entries query_records
\* returns for the same arguments
C4_PointCountExact ==
    \A key \in Keys, c \in ChrNames, r \in Ranges :
        PointsOnly(key, c) =>
            /\ count_records(key, c, r[1], r[2]) =
                  Cardinality({q \in hist.sent :
                                  /\ q[1] = key /\ Chromosome(q) = c
                                  /\ r[1] <= q[2][1].position
                                  /\ q[2][1].position <= r[2]})
            /\ count_records(key, c, r[1], r[2]) = total(query_records(key, c, r[1], r[2]))

\* positions 100, 5000, 20000 and 20001 are stored on chromosome "1" and the
\* count over [100, 20000] is 3
C4_Witness ==
    /\ PointsOnly("k1", "1")
    /\ {q[2][1].position : q \in {x \in hist.sent : Chromosome(x) = "1"}}
           = {100, 5000, 20000, 20001}
    /\ count_records("k1", "1", 100, 20000) = 3
    /\ total(query_records("k1", "1", 100, 20000)) = 3

\* chromosome "1" of the keyspace holds one region record, spanning [19990, 20010]
OneRegion(key) ==
    /\ {q \in hist.sent : q[1] = key /\ Chromosome(q) = "1"}
           = {<<key, <<RegionLocus("1", 19990, 20010), Record(1, 200, 10)>>>>}
    /\ {q \in hist.regions : q[1] = key /\ Chromosome(q) = "1"}
           = {<<key, <<RegionLocus("1", 19990, 20010), Record(1, 200, 10)>>>>}

\* C5 as stated: with only the region [19990, 20010] on chromosome "1", the count
\* over [0, 19000] is at least 1 and the count over [25000, 26000] is 0
C5_AsStated ==
    \A key \in Keys :
        OneRegion(key) =>
            /\ count_records(key, "1", 0, 19000) >= 1
            /\ count_records(key, "1", 25000, 26000) = 0

\* C5 amended: with only the region [19990, 20010] on chromosome "1", the count
\* over [0, 19000] is at least 1, the count over [25000, 26000] is 1 (the span
\* touches bucket 1), and the count over [40000, 41000] is 0
C5_TouchedBuckets ==
    \A key \in Keys :
        OneRegion(key) =>
            /\ count_records(key, "1", 0, 19000) >= 1
            /\ count_records(key, "1", 25000, 26000) = 1
            /\ count_records(key, "1", 40000, 41000) = 0

C5_Witness == OneRegion("k1") /\ ret = Returned("insert_records", 0, "")

----------------------------------------------------------------------------
(* Table registry and deletion *)

Table(path, hash, key, locus) ==
    [path |-> path, hash |-> hash, key |-> key, locus |-> locus,
     dialect |-> "json", fieldnames |-> <<>>]

\* what a lookup returns for a table that is not there
None == [none |-> TRUE]

\* the six HSETs of commit_table on the hash key 'table:{table_id}'
hsetTable(meta, id, table) ==
    [i \in DOMAIN meta \cup {id} |->
        IF i = id
            THEN [path |-> table.path, hash |-> table.hash, key |-> table.key,
                  locus |-> table.locus, dialect |-> table.dialect,
                  fieldnames |-> table.fieldnames]
            ELSE meta[i]]

\* DEL key, on a family of keys kept as a function
del(f, k) == [x \in DOMAIN f \ {k} |-> f[x]]

\* what a call that raises exception e yields
Raised(e) == [raised |-> e]

\* HGETALL 'table:{table_id}'; a hash without the field 'fieldnames' makes
\* msgpack.loads(None) raise TypeError, and one without another of the fields
\* makes the lookup in the dict raise KeyError
get_table(id) ==
    IF id \notin DOMAIN tableMeta THEN None
    ELSE IF "fieldnames" \notin DOMAIN tableMeta[id] THEN Raised("TypeError")
    ELSE IF DOMAIN tableMeta[id] # {"path", "hash", "key", "locus", "dialect", "fieldnames"}
        THEN Raised("KeyError")
    ELSE tableMeta[id]

\* the exception a lookup that yielded value raised ("" for none)
raisedBy(value) == IF DOMAIN value = {"raised"} THEN value.raised ELSE ""

get_table_from_path(path) ==
    IF path \notin DOMAIN tablePath THEN <<None, None>>
    ELSE <<tablePath[path], get_table(tablePath[path])>>

\* the counter values a store may start with, and the ids handed out after them
InitialCounters == {0, 41, 90}
TableIds == UNION {(c + 1)..(c + MaxTables) : c \in InitialCounters}

\* register_table that takes the new id before it looks the path up
register_tableIncrFirst(table) ==
    /\ UNCHANGED <<chrKey, bucketKey>>
    /\ table_id' = table_id + 1
    /\ IF table.path \in DOMAIN tablePath
        THEN /\ UNCHANGED <<tablePath, tableMeta>>
             /\ ret' = Returned("register_table", 0, "AssertionError")
        ELSE /\ table_id + 1 \in TableIds
             /\ tableMeta' = hsetTable(tableMeta, table_id', [table EXCEPT !.hash = ""])
             /\ tablePath' = [p \in DOMAIN tablePath \cup {table.path} |->
                                IF p = table.path THEN table_id' ELSE tablePath[p]]
             /\ ret' = Returned("register_table", table_id', "")

register_table(table) ==
    /\ UNCHANGED <<chrKey, bucketKey>>
    /\ IF table.path \in DOMAIN tablePath
        THEN /\ UNCHANGED registry
             /\ ret' = Returned("register_table", 0, "AssertionError")
        ELSE /\ table_id + 1 \in TableIds
             /\ table_id' = table_id + 1
             /\ tableMeta' = hsetTable(tableMeta, table_id', [table EXCEPT !.hash = ""])
             /\ tablePath' = [p \in DOMAIN tablePath \cup {table.path} |->
                                IF p = table.path THEN table_id' ELSE tablePath[p]]
             /\ ret' = Returned("register_table", table_id', "")

commit_table(id, table) ==
    /\ UNCHANGED <<table_id, tablePath, chrKey, bucketKey>>
    /\ tableMeta' = hsetTable(tableMeta, id, table)
    /\ ret' = Returned("commit_table", id, "")

\* the members of a set or sorted set that SCAN ... MATCH match yields
scanMatch(members, match) == {m \in members : stringmatch(match, m)}

\* the SREMs queued for the buckets lo..hi that the chromosome key k registers
RECURSIVE bucketRemovals(_, _, _, _)
bucketRemovals(k, match, lo, hi) ==
    IF lo > hi THEN <<>>
    ELSE LET bucket == k \o <<lo>>
         IN  (IF bucket \in chrKey[k].set /\ type(data, bucket) = "set"
                THEN <<SREM(bucket, scanMatch(bucketKey[bucket], match))>>
                ELSE <<>>)
             \o bucketRemovals(k, match, lo + 1, hi)

\* the commands delete_records queues for the chromosomes i.. of the list
RECURSIVE deleteCommands(_, _, _)
deleteCommands(key, match, i) ==
    IF i > Len(chromosomes) THEN <<>>
    ELSE LET k == <<key, chromosomes[i]>>
         IN  (IF ~exists(data, k) THEN <<>>
              ELSE IF type(data, k) = "zset"
                THEN <<ZREM(k, scanMatch(DOMAIN chrKey[k].zset, match))>>
                ELSE bucketRemovals(k, match, 0, MaxCoord \div BucketWidth))
             \o deleteCommands(key, match, i + 1)

\* delete_records as a function of the store: the data keys after it and the
\* exception it raises ("" for none)
deleteRecords(id) ==
    LET table == get_table(id) IN
    IF table = None THEN [db |-> data, err |-> "AttributeError"]
    ELSE IF raisedBy(table) # "" THEN [db |-> data, err |-> raisedBy(table)]
    ELSE LET r == execute(data, deleteCommands(table.key, matchPattern(id), 1))
         IN  [db |-> r.db, err |-> IF r.err THEN "ResponseError" ELSE ""]

delete_records(id) ==
    LET r == deleteRecords(id)
    IN  /\ chrKey' = r.db.chr
        /\ bucketKey' = r.db.bucket
        /\ UNCHANGED registry
        /\ ret' = Returned("delete_records", id, r.err)

delete_table(id) ==
    LET r == deleteRecords(id)
    IN  /\ chrKey' = r.db.chr
        /\ bucketKey' = r.db.bucket
        /\ UNCHANGED table_id
        /\ ret' = Returned("delete_table", id, r.err)
        /\ IF r.err # "" THEN UNCHANGED <<tablePath, tableMeta>>
           ELSE /\ tablePath' = del(tablePath, tableMeta[id].path)
                /\ tableMeta' = del(tableMeta, id)

----------------------------------------------------------------------------
(* The client: registry, inserts and deletion, one call at a time *)

Paths == {"a", "b"}
Tables == {Table(p, "", k, "chromosome:position") : p \in Paths, k \in Keys}

\* rows of the source file of table id: a locus and the record at it
Rows(id) ==
    { <<SNPLocus("1", 100), Record(id, 0, 10)>>,
      <<RegionLocus("1", 19990, 20010), Record(id, 200, 10)>> }

\* the ids a caller passes: those of the registered tables and one unknown id
CallIds == DOMAIN tableMeta \cup {table_id + 1}

\* the table a caller commits under id once its file is loaded: the registered
\* table with the hash of the file, or for an id it never registered, a table
\* of its own
Loaded(id) ==
    IF id \in DOMAIN tableMeta THEN [tableMeta[id] EXCEPT !.hash = "abc123"]
    ELSE Table("a", "abc123", "k1", "chromosome:position")

Init ==
    /\ \E c \in InitialCounters : InitStore(c)
    /\ reader = Idle
    /\ probe = Idle
    /\ calls = NoCalls

Next ==
    \/ \E table \in Tables :
          register_table(table) /\ UNCHANGED <<hist, reader, probe, calls>>
    \/ \E id \in DOMAIN tableMeta :
          /\ commit_table(id, Loaded(id))
          /\ UNCHANGED <<hist, reader, probe, calls>>
    \/ \E id \in DOMAIN tableMeta :
          \E pairs \in Batches(Rows(id)) :
              /\ insert_records(tableMeta[id].key, pairs)
              /\ UNCHANGED <<hist, reader, probe, calls>>
    \/ \E id \in CallIds :
          delete_records(id) /\ UNCHANGED <<hist, reader, probe, calls>>
    \/ \E id \in CallIds :
          delete_table(id) /\ UNCHANGED <<hist, reader, probe, calls>>

Spec == Init /\ [][Next]_vars

----------------------------------------------------------------------------
(* Properties of the client (Spec) *)

\* C6: deletion completeness: once delete_table(t) has returned, get_table(t) is
\* None and query_records returns no entry under t for any keyspace, chromosome
\* and range
C6_DeletionComplete ==
    (ret.op = "delete_table" /\ ret.err = "") =>
        /\ get_table(ret.id) = None
        /\ \A key \in Keys, c \in ChrNames, r \in Ranges :
              ret.id \notin DOMAIN query_records(key, c, r[1], r[2])

\* the stored entries of table u: sorted-set members with their position, and
\* bucket members with their bucket
Stored(db, u) ==
    UNION {{<<k, m, db.chr[k].zset[m]>> :
                m \in {y \in DOMAIN db.chr[k].zset : loads(y)[1] = u}} : k \in DOMAIN db.chr}
    \cup UNION {{<<b, m, 0>> : m \in {y \in db.bucket[b] : loads(y)[1] = u}} :
                    b \in DOMAIN db.bucket}

\* C7: deletion is table-scoped: delete_records(t) and delete_table(t) leave
\* every stored entry of every other table u in place, and query_records still
\* returns it
C7_TableScoped ==
    [][ret'.op \in {"delete_records", "delete_table"} =>
          \A u \in TableIds \ {ret'.id} :
              /\ Stored(data, u) \subseteq Stored(data', u)
              /\ \A key \in Keys, c \in ChrNames, r \in Ranges :
                    LET before == query_records(key, c, r[1], r[2])
                        after == query_records(key, c, r[1], r[2])'
                    IN  u \in DOMAIN before =>
                            /\ u \in DOMAIN after
                            /\ before[u] \subseteq after[u]]_vars

\* C9: idempotent re-deletion: a delete_records(t) that follows a
\* delete_records(t) which returned leaves the store as it is and raises nothing
C9_IdempotentRedelete ==
    [][(/\ ret.op = "delete_records" /\ ret.err = ""
        /\ ret'.op = "delete_records" /\ ret'.id = ret.id) =>
          /\ store' = store
          /\ ret'.err = ""]_vars

----------------------------------------------------------------------------
(* The deletion pattern against the record encoding (SpecCodec) *)

\* table ids: one-byte and longer encodings, and the bytes a glob reads as
\* '*' (42), '?' (63), '[' (91) and '\' (92)
CodecIds == {1, 2, 42, 43, 63, 91, 92, 127, 128, 200, 256, 298, 65536}
CodecOffsets == {0, 42, 200, 70000}
CodecLengths == {10, 300}

InitCodec ==
    /\ InitStore(0)
    /\ reader = Idle
    /\ calls = NoCalls
    /\ probe \in {[pc |-> "start", t1 |-> a, t2 |-> b, offset |-> o, length |-> l,
                   match |-> <<>>, value |-> <<>>, matched |-> FALSE] :
                     a \in CodecIds, b \in CodecIds, o \in CodecOffsets, l \in CodecLengths}

\* delete_records(t1) builds its pattern
BuildMatch ==
    /\ probe.pc = "start"
    /\ probe' = [probe EXCEPT !.pc = "match", !.match = matchPattern(probe.t1)]
    /\ UNCHANGED <<store, ret, hist, reader, calls>>

\* a record of table t2 is packed
PackRecord ==
    /\ probe.pc = "match"
    /\ probe' = [probe EXCEPT !.pc = "value",
                              !.value = pack(probe.t2, probe.offset, probe.length)]
    /\ UNCHANGED <<store, ret, hist, reader, calls>>

\* the scan of delete_records meets the record
ScanRecord ==
    /\ probe.pc = "value"
    /\ probe' = [probe EXCEPT !.pc = "done",
                              !.matched = scanMatch({probe.value}, probe.match) # {}]
    /\ UNCHANGED <<store, ret, hist, reader, calls>>

NextCodec == BuildMatch \/ PackRecord \/ ScanRecord

SpecCodec == InitCodec /\ [][NextCodec]_vars

\* C8: prefix stability: the pattern built from t1 matches the packed record
\* (t2, offset, length) exactly when t1 = t2
C8_PrefixStable ==
    probe.pc = "done" => (probe.matched <=> probe.t1 = probe.t2)

\* the round trip of the codec on the probed record
CodecRoundTrip ==
    probe.pc = "done" => loads(probe.value) = <<probe.t2, probe.offset, probe.length>>

----------------------------------------------------------------------------
(* A reader beside a writer (SpecReader): query_records and count_records   *)
(* run one store command at a time while insert_records calls execute       *)

ReaderPairs ==
    { <<RegionLocus("1", 100, 5000), Record(1, 0, 10)>>,
      <<RegionLocus("1", 45000, 45010), Record(1, 10, 10)>>,
      <<RegionLocus("1", 19990, 20010), Record(2, 0, 10)>>,
      <<SNPLocus("1", 100), Record(2, 10, 10)>> }
ReaderRanges == {<<0, MaxCoord>>, <<0, 19000>>}

\* the call in progress: its arguments, the next bucket i, what it has read so
\* far, and for the properties the number of insert_records calls executed
\* since it began with the result the call would have had just before and just
\* after the last of them, and how that one returned
Reading(pc, op, args, i, results, overlaps, before, after) ==
    [pc |-> pc, op |-> op, key |-> args[1], chromosome |-> args[2],
     start |-> args[3], stop |-> args[4], i |-> i, results |-> results,
     overlaps |-> overlaps, before |-> before, after |-> after, returned |-> ""]

\* query_records: chr_key is built and its TYPE is read
query_type(key, chromosome, start, stop) ==
    /\ reader.pc = "idle"
    /\ reader' = Reading(IF chrKey[<<key, chromosome>>].type = "zset"
                            THEN "zrangebyscore" ELSE "smembers",
                         "query_records", <<key, chromosome, start, stop>>,
                         start \div BucketWidth, {}, 0,
                         query_records(key, chromosome, start, stop),
                         query_records(key, chromosome, start, stop))
    /\ UNCHANGED <<store, ret, hist, probe, calls>>

\* query_records: ZRANGEBYSCORE (WRONGTYPE if the key holds a set by now)
query_zrangebyscore ==
    /\ reader.pc = "zrangebyscore" /\ reader.op = "query_records"
    /\ LET v == chrKey[<<reader.key, reader.chromosome>>]
       IN  reader' = IF v.type = "set"
                        THEN [reader EXCEPT !.pc = "error"]
                        ELSE [reader EXCEPT !.pc = "unpack",
                                !.results = zrangebyscore(v.zset, reader.start, reader.stop)]
    /\ UNCHANGED <<store, ret, hist, probe, calls>>

\* query_records: SMEMBERS of the next bucket of the range
query_smembers ==
    /\ reader.pc = "smembers" /\ reader.op = "query_records"
    /\ reader.i <= reader.stop \div BucketWidth
    /\ reader' = [reader EXCEPT !.i = @ + 1,
                    !.results = @ \cup smembers(reader.key, reader.chromosome, reader.i)]
    /\ UNCHANGED <<store, ret, hist, probe, calls>>

\* query_records: the records are unpacked and the mapping is returned
query_return ==
    /\ reader.pc \in {"unpack", "smembers"} /\ reader.op = "query_records"
    /\ reader.pc = "smembers" => reader.i > reader.stop \div BucketWidth
    /\ reader' = [reader EXCEPT !.pc = "done", !.results = unpackRecords(reader.results)]
    /\ UNCHANGED <<store, ret, hist, probe, calls>>

\* count_records: chr_key is built and its TYPE is read
count_type(key, chromosome, start, stop) ==
    /\ reader.pc = "idle"
    /\ reader' = Reading(IF chrKey[<<key, chromosome>>].type = "zset"
                            THEN "zcount" ELSE "scard",
                         "count_records", <<key, chromosome, start, stop>>,
                         start \div BucketWidth, 0, 0,
                         count_records(key, chromosome, start, stop),
                         count_records(key, chromosome, start, stop))
    /\ UNCHANGED <<store, ret, hist, probe, calls>>

\* count_records: ZCOUNT (WRONGTYPE if the key holds a set by now)
count_zcount ==
    /\ reader.pc = "zcount" /\ reader.op = "count_records"
    /\ LET v == chrKey[<<reader.key, reader.chromosome>>]
       IN  reader' = IF v.type = "set"
                        THEN [reader EXCEPT !.pc = "error"]
                        ELSE [reader EXCEPT !.pc = "done",
                                !.results = zcount(v.zset, reader.start, reader.stop)]
    /\ UNCHANGED <<store, ret, hist, probe, calls>>

\* count_records: SCARD of the next bucket of the range
count_scard ==
    /\ reader.pc = "scard" /\ reader.op = "count_records"
    /\ reader.i <= reader.stop \div BucketWidth
    /\ reader' = [reader EXCEPT !.i = @ + 1,
                    !.results = @ + Cardinality(smembers(reader.key, reader.chromosome,
                                                         reader.i))]
    /\ UNCHANGED <<store, ret, hist, probe, calls>>

\* count_records: n is returned
count_return ==
    /\ reader.pc = "scard" /\ reader.op = "count_records"
    /\ reader.i > reader.stop \div BucketWidth
    /\ reader' = [reader EXCEPT !.pc = "done"]
    /\ UNCHANGED <<store, ret, hist, probe, calls>>

\* the caller takes the result (or the error); the reader may call again
reader_idle ==
    /\ reader.pc \in {"done", "error"}
    /\ reader' = Idle
    /\ UNCHANGED <<store, ret, hist, probe, calls>>

\* reader after an insert_records call executed beside it
Overlapped ==
    IF reader.pc \in {"idle", "done", "error"} THEN reader' = reader
    ELSE \E key \in {reader.key}, chromosome \in {reader.chromosome},
            start \in {reader.start}, stop \in {reader.stop} :
        reader' =
            [reader EXCEPT
                !.overlaps = IF @ = 0 THEN 1 ELSE 2,
                !.returned = ret'.err,
                !.before = IF reader.op = "query_records"
                            THEN query_records(key, chromosome, start, stop)
                            ELSE count_records(key, chromosome, start, stop),
                !.after = IF reader.op = "query_records"
                            THEN query_records(key, chromosome, start, stop)'
                            ELSE count_records(key, chromosome, start, stop)']

InitReader == InitStore(0) /\ reader = Idle /\ probe = Idle /\ calls = NoCalls

NextReader ==
    \/ \E pairs \in Batches(ReaderPairs) :
          /\ insert_records("k1", pairs)
          /\ Overlapped
          /\ UNCHANGED <<hist, probe, calls>>
    \/ \E r \in ReaderRanges : query_type("k1", "1", r[1], r[2])
    \/ query_zrangebyscore
    \/ query_smembers
    \/ query_return
    \/ \E r \in ReaderRanges : count_type("k1", "1", r[1], r[2])
    \/ count_zcount
    \/ count_scard
    \/ count_return
    \/ reader_idle

SpecReader == InitReader /\ [][NextReader]_vars

\* C2: a query_records or count_records call beside which one insert_records
\* call executed, and returned normally, returns what it would have returned
\* just before that call or just after it: all of the batch that falls in its
\* range, or none of it
C2_BeforeOrAfter ==
    (reader.pc = "done" /\ reader.overlaps = 1 /\ reader.returned = "") =>
        reader.results \in {reader.before, reader.after}

----------------------------------------------------------------------------
(* Properties of the client (Spec), continued *)

\* C13: a table is queryable only when committed: query_records returns no
\* entry under a table_id whose metadata hash is the empty string
C13_QueryableOnlyCommitted ==
    \A id \in DOMAIN tableMeta :
        tableMeta[id].hash = "" =>
            \A key \in Keys, c \in ChrNames, r \in Ranges :
                id \notin DOMAIN query_records(key, c, r[1], r[2])

\* the records held under chromosome c of the keyspace, in the sorted set or in
\* any bucket, and the locus of the row that a held record was inserted with
Held(key, c) ==
    DOMAIN chrKey[<<key, c>>].zset \cup UNION {bucketKey[<<key, c, b>>] : b \in Buckets}
RowLocus(m) ==
    (CHOOSE row \in Rows(loads(m)[1]) :
        <<row[2].offset, row[2].length>> = <<loads(m)[2], loads(m)[3]>>)[1]

\* C16 as stated: when no record is stored in the queried range, count_records
\* returns 0 and query_records returns an empty mapping
C16_AsStated ==
    \A key \in Keys, c \in ChrNames, r \in Ranges :
        {m \in Held(key, c) : Intersects(RowLocus(m), r)} = {} =>
            /\ count_records(key, c, r[1], r[2]) = 0
            /\ DOMAIN query_records(key, c, r[1], r[2]) = {}

\* a range reaches a record: a point with its position in the range, a region
\* whose span shares a bucket with the range
Reaches(r, locus) ==
    IF locus.cls = "SNPLocus" THEN Intersects(locus, r)
    ELSE \E b \in Buckets :
            /\ locus.start < (b + 1) * BucketWidth
            /\ b * BucketWidth <= locus.stop
            /\ r[1] < (b + 1) * BucketWidth
            /\ b * BucketWidth <= r[2]

\* C16 amended: when no point record has its position in the queried range and
\* no region record spans a bucket that the range touches, count_records
\* returns 0 and query_records returns an empty mapping
C16_NothingReached ==
    \A key \in Keys, c \in ChrNames :
        LET loci == {RowLocus(m) : m \in Held(key, c)} IN
        \A r \in Ranges :
            (\A locus \in loci : ~Reaches(r, locus)) =>
                /\ count_records(key, c, r[1], r[2]) = 0
                /\ DOMAIN query_records(key, c, r[1], r[2]) = {}

\* delete_records has removed the only region record of chromosome "1", whose
\* key still holds the set of bucket identifiers, while a region record of
\* another keyspace is in place
C16_Witness ==
    /\ ret.op = "delete_records" /\ ret.err = ""
    /\ chrKey[<<"k1", "1">>].type = "set" /\ Held("k1", "1") = {}
    /\ chrKey[<<"k2", "1">>].type = "set" /\ Held("k2", "1") # {}

\* C19: bucket-index consistency: the set of bucket identifiers that a
\* chromosome key holds (none when the key is not there) is exactly the set of
\* the chromosome's buckets that hold at least one record; stated for the
\* chromosomes that do not hold points
C19_BucketIndexExact ==
    \A key \in Keys, c \in ChrNames :
        chrKey[<<key, c>>].type # "zset" =>
            chrKey[<<key, c>>].set =
                {<<key, c, b>> : b \in {x \in Buckets : bucketKey[<<key, c, x>>] # {}}}

----------------------------------------------------------------------------
(* The registry alone (SpecRegistry): whole calls on tables that hold no    *)
(* records, with ids the caller never registered                            *)

NextRegistry ==
    \/ \E table \in Tables :
          register_table(table) /\ UNCHANGED <<hist, reader, probe, calls>>
    \/ \E id \in CallIds :
          commit_table(id, Loaded(id)) /\ UNCHANGED <<hist, reader, probe, calls>>
    \/ \E id \in CallIds :
          delete_records(id) /\ UNCHANGED <<hist, reader, probe, calls>>
    \/ \E id \in CallIds :
          delete_table(id) /\ UNCHANGED <<hist, reader, probe, calls>>

SpecRegistry == Init /\ [][NextRegistry]_vars

\* C14: unknown table ids are fatal for commit and delete: commit_table,
\* delete_records and delete_table called with an id that has no metadata
\* fail and leave the store unchanged, while get_table and get_table_from_path
\* return absence for an unknown id or path
C14_UnknownIdFatal ==
    [][ /\ (ret'.op \in {"commit_table", "delete_records", "delete_table"}
            /\ ret'.id \notin DOMAIN tableMeta)
           => (ret'.err # "" /\ store' = store)
        /\ \A id \in TableIds \ DOMAIN tableMeta : get_table(id) = None
        /\ \A path \in Paths \ DOMAIN tablePath :
              get_table_from_path(path) = <<None, None>> ]_vars

----------------------------------------------------------------------------
(* Concurrent clients of the registry (SpecCalls): every call runs one      *)
(* store command at a time, and a client may stop in the middle of a call   *)

Clients == {"c1", "c2"}

\* the fields of the hash 'table:{table_id}' in the order commit_table sets them
Fields == <<"path", "hash", "key", "locus", "dialect", "fieldnames">>

\* HSET 'table:{id}' field value
hset(meta, id, field, value) ==
    [i \in DOMAIN meta \cup {id} |->
        IF i = id
            THEN (field :> value) @@ (IF id \in DOMAIN meta THEN meta[id] ELSE <<>>)
            ELSE meta[i]]

\* the call client c is in: its method, the next command, and its locals
Frame(op, pc, table, id, path, i) ==
    [op |-> op, pc |-> pc, table |-> table, id |-> id, path |-> path, i |-> i]

\* the number of calls the clients make in a run
MaxCalls == 3

\* for the properties: the number of calls made, the ids the counter handed
\* out, the ids register_table returned, the tables that commit_table was
\* called with, the ids delete_table was called with, the ids whose
\* delete_table stopped in the middle, and the chromosomes that the last
\* transaction of a delete_table removed records from
NoCallHist ==
    [started |-> 0, issued |-> {}, returned |-> {}, written |-> {}, deleted |-> {},
     interrupted |-> {}, cleared |-> {}]

\* one more call is made
Started == [hist EXCEPT !.started = @ + 1]

\* the tables callers register in this specification
CallTables == {Table(p, "", "k1", "chromosome:position") : p \in Paths}

\* client c returns from op with the exception err ("" for none)
Return(c, op, id, err) ==
    /\ calls' = [calls EXCEPT ![c] = Idle]
    /\ ret' = Returned(op, id, err)

\* register_table: EXISTS 'table/{path}', AssertionError if it is there
register_exists(c, table) ==
    /\ calls[c].pc = "idle"
    /\ IF table.path \in DOMAIN tablePath
        THEN Return(c, "register_table", 0, "AssertionError")
        ELSE /\ calls' = [calls EXCEPT
                    ![c] = Frame("register_table", "incr", table, 0, table.path, 0)]
             /\ UNCHANGED ret
    /\ hist.started < MaxCalls /\ hist' = Started
    /\ UNCHANGED <<store, reader, probe>>

\* register_table that numbers the new table by the count of the tables there are
register_incrCount(c) ==
    /\ calls[c].pc = "incr"
    /\ table_id + 1 \in TableIds
    /\ table_id' = Cardinality(DOMAIN tableMeta) + 1
    /\ calls' = [calls EXCEPT ![c].pc = "hset", ![c].id = table_id', ![c].i = 1,
                              ![c].table = [calls[c].table EXCEPT !.hash = ""]]
    /\ hist' = [hist EXCEPT !.issued = @ \cup {table_id'},
                            !.written = @ \cup {[calls[c].table EXCEPT !.hash = ""]}]
    /\ UNCHANGED <<tablePath, tableMeta, chrKey, bucketKey, ret, reader, probe>>

\* register_table: INCR 'table_id', then commit_table is entered with hash ''
register_incr(c) ==
    /\ calls[c].pc = "incr"
    /\ table_id + 1 \in TableIds
    /\ table_id' = table_id + 1
    /\ calls' = [calls EXCEPT ![c].pc = "hset", ![c].id = table_id', ![c].i = 1,
                              ![c].table = [calls[c].table EXCEPT !.hash = ""]]
    /\ hist' = [hist EXCEPT !.issued = @ \cup {table_id'},
                            !.written = @ \cup {[calls[c].table EXCEPT !.hash = ""]}]
    /\ UNCHANGED <<tablePath, tableMeta, chrKey, bucketKey, ret, reader, probe>>

\* commit_table is called
commit_enter(c, id, table) ==
    /\ calls[c].pc = "idle"
    /\ calls' = [calls EXCEPT ![c] = Frame("commit_table", "hset", table, id, table.path, 1)]
    /\ hist.started < MaxCalls
    /\ hist' = [Started EXCEPT !.written = @ \cup {table}]
    /\ UNCHANGED <<store, ret, reader, probe>>

\* commit_table: the next of its six HSETs; after the last one commit_table
\* returns, to its caller or to register_table
commit_hset(c) ==
    /\ calls[c].pc = "hset"
    /\ tableMeta' = hset(tableMeta, calls[c].id, Fields[calls[c].i],
                         calls[c].table[Fields[calls[c].i]])
    /\ IF calls[c].i < Len(Fields)
        THEN calls' = [calls EXCEPT ![c].i = @ + 1] /\ UNCHANGED ret
        ELSE IF calls[c].op = "register_table"
            THEN calls' = [calls EXCEPT ![c].pc = "set"] /\ UNCHANGED ret
            ELSE Return(c, "commit_table", calls[c].id, "")
    /\ UNCHANGED <<table_id, tablePath, chrKey, bucketKey, hist, reader, probe>>

\* register_table: SET 'table/{path}' table_id, and the id is returned
register_set(c) ==
    /\ calls[c].pc = "set"
    /\ tablePath' = [p \in DOMAIN tablePath \cup {calls[c].path} |->
                        IF p = calls[c].path THEN calls[c].id ELSE tablePath[p]]
    /\ Return(c, "register_table", calls[c].id, "")
    /\ hist' = [hist EXCEPT !.returned = @ \cup {calls[c].id}]
    /\ UNCHANGED <<table_id, tableMeta, chrKey, bucketKey, reader, probe>>

\* get_table as a call of client c: HGETALL, then the Table is built
get_table_call(c, id) ==
    /\ calls[c].pc = "idle"
    /\ Return(c, "get_table", id,
              raisedBy(get_table(id)))
    /\ hist.started < MaxCalls /\ hist' = Started
    /\ UNCHANGED <<store, reader, probe>>

\* get_table_from_path: GET 'table/{path}', (None, None) if it is not there
path_get(c, path) ==
    /\ calls[c].pc = "idle"
    /\ IF path \notin DOMAIN tablePath
        THEN Return(c, "get_table_from_path", 0, "")
        ELSE /\ calls' = [calls EXCEPT ![c] =
                    Frame("get_table_from_path", "hgetall", None, tablePath[path], path, 0)]
             /\ UNCHANGED ret
    /\ hist.started < MaxCalls /\ hist' = Started
    /\ UNCHANGED <<store, reader, probe>>

\* get_table_from_path: get_table(table_id), and the pair is returned
path_hgetall(c) ==
    /\ calls[c].pc = "hgetall"
    /\ Return(c, "get_table_from_path", calls[c].id,
              raisedBy(get_table(calls[c].id)))
    /\ UNCHANGED <<store, hist, reader, probe>>

\* delete_table: delete_records(table_id), from get_table to pipe.execute()
delete_enter(c, id) ==
    /\ calls[c].pc = "idle"
    /\ LET r == deleteRecords(id)
       IN  /\ chrKey' = r.db.chr
           /\ bucketKey' = r.db.bucket
           /\ IF r.err # ""
                THEN Return(c, "delete_table", id, r.err)
                ELSE /\ calls' = [calls EXCEPT ![c] =
                            Frame("delete_table", "hget", None, id, "", 0)]
                     /\ UNCHANGED ret
    /\ hist.started < MaxCalls
    /\ hist' = [Started EXCEPT
                    !.deleted = @ \cup {id},
                    !.cleared = {ch \in ChrNames :
                        \/ \E k \in Keys : chrKey'[<<k, ch>>] # chrKey[<<k, ch>>]
                        \/ \E k \in Keys, b \in Buckets :
                              bucketKey'[<<k, ch, b>>] # bucketKey[<<k, ch, b>>]}]
    /\ UNCHANGED <<registry, reader, probe>>

\* delete_table: HGET 'table:{table_id}' path; None.decode raises AttributeError
delete_hget(c) ==
    /\ calls[c].pc = "hget"
    /\ IF calls[c].id \in DOMAIN tableMeta /\ "path" \in DOMAIN tableMeta[calls[c].id]
        THEN /\ calls' = [calls EXCEPT ![c].pc = "delpath",
                                       ![c].path = tableMeta[calls[c].id].path]
             /\ UNCHANGED ret
        ELSE Return(c, "delete_table", calls[c].id, "AttributeError")
    /\ UNCHANGED <<store, hist, reader, probe>>

\* delete_table: DEL 'table/{path}'
delete_path(c) ==
    /\ calls[c].pc = "delpath"
    /\ tablePath' = del(tablePath, calls[c].path)
    /\ calls' = [calls EXCEPT ![c].pc = "delmeta"]
    /\ UNCHANGED <<table_id, tableMeta, chrKey, bucketKey, ret, hist, reader, probe>>

\* delete_table: DEL 'table:{table_id}', and the call returns
delete_meta(c) ==
    /\ calls[c].pc = "delmeta"
    /\ tableMeta' = del(tableMeta, calls[c].id)
    /\ Return(c, "delete_table", calls[c].id, "")
    /\ UNCHANGED <<table_id, tablePath, chrKey, bucketKey, hist, reader, probe>>

\* the process of client c stops in the middle of its call
crash(c) ==
    /\ calls[c].pc # "idle"
    /\ calls' = [calls EXCEPT ![c] = Idle]
    /\ hist' = [hist EXCEPT !.interrupted =
                    IF calls[c].op = "delete_table" THEN @ \cup {calls[c].id} ELSE @]
    /\ UNCHANGED <<store, ret, reader, probe>>

InitCalls ==
    /\ table_id = 0
    /\ tablePath = [p \in {} |-> 0]
    /\ tableMeta = [i \in {} |-> 0]
    /\ chrKey = [k \in Keys \X ChrNames |-> NoKey]
    /\ bucketKey = [k \in Keys \X ChrNames \X Buckets |-> {}]
    /\ ret = NoReturn
    /\ hist = NoCallHist
    /\ reader = Idle
    /\ probe = Idle
    /\ calls = [c \in Clients |-> Idle]

NextCalls ==
    \/ \E c \in Clients, table \in CallTables : register_exists(c, table)
    \/ \E c \in Clients : register_incr(c)
    \/ \E c \in Clients : \E id \in DOMAIN tableMeta :
          /\ raisedBy(get_table(id)) = ""
          /\ commit_enter(c, id, Loaded(id))
    \/ \E c \in Clients : commit_hset(c)
    \/ \E c \in Clients : register_set(c)
    \/ \E c \in Clients : \E id \in DOMAIN tableMeta : get_table_call(c, id)
    \/ \E c \in Clients, path \in Paths : path_get(c, path)
    \/ \E c \in Clients : path_hgetall(c)
    \/ \E c \in Clients : \E id \in DOMAIN tableMeta : delete_enter(c, id)
    \/ \E c \in Clients : delete_hget(c)
    \/ \E c \in Clients : delete_path(c)
    \/ \E c \in Clients : delete_meta(c)
    \/ \E c \in Clients : crash(c)

SpecCalls == InitCalls /\ [][NextCalls]_vars

----------------------------------------------------------------------------
(* Properties of the concurrent clients (SpecCalls) *)

\* the metadata entries with a path, and the live tables: registered, with
\* metadata, and never given to delete_table
WithPath == {i \in DOMAIN tableMeta : "path" \in DOMAIN tableMeta[i]}
Live == (hist.returned \cap WithPath) \ hist.deleted

\* C11: path-to-id is a bijection over live tables: no two metadata entries
\* carry the same path, and each live table's path maps to that table's id
C11_PathBijection ==
    /\ \A i, j \in WithPath : tableMeta[i].path = tableMeta[j].path => i = j
    /\ \A i \in Live :
          /\ tableMeta[i].path \in DOMAIN tablePath
          /\ tablePath[tableMeta[i].path] = i

\* C12 as stated: every register_table that returns, returns an id greater than
\* every id a register_table returned before it
C12_ReturnOrder ==
    [][\A c \in Clients :
          register_set(c) => \A i \in hist.returned : calls[c].id > i]_vars

\* C12 amended: every id the counter hands to a register_table is greater than
\* every id handed out or returned before, whatever was deleted since; and no
\* id is returned twice
C12_IssueOrder ==
    [][\A c \in Clients :
          /\ register_incr(c) =>
                \A i \in hist.issued \cup hist.returned \cup DOMAIN tableMeta :
                    table_id' > i
          /\ register_set(c) =>
                calls[c].id \in hist.issued /\ calls[c].id \notin hist.returned]_vars

\* two ids were returned, the first one's table was deleted before the second
\* id was handed out
C12_Witness ==
    /\ hist.returned = {1, 2}
    /\ hist.deleted = {1}
    /\ DOMAIN tableMeta = {2}
    /\ ret = Returned("register_table", 2, "")

\* C15: lookups return the current metadata or absence, never an error and
\* never a torn value: what get_table and get_table_from_path build from the
\* hash is None or a Table that some register_table or commit_table wrote
C15_LookupNeverTorn ==
    [][\A c \in Clients :
          /\ \A id \in TableIds :
                get_table_call(c, id) => get_table(id) \in hist.written \cup {None}
          /\ path_hgetall(c) => get_table(calls[c].id) \in hist.written \cup {None}]_vars

\* C20: a visible path mapping points at complete metadata: whenever
\* 'table/{path}' is there, 'table:{id}' of the id it holds is there with all
\* six fields
C20_PathHasMetadata ==
    \A p \in DOMAIN tablePath :
        /\ tablePath[p] \in DOMAIN tableMeta
        /\ DOMAIN tableMeta[tablePath[p]] = {Fields[i] : i \in DOMAIN Fields}

----------------------------------------------------------------------------
(* Deletion by one client that may stop in the middle (SpecDelete): tables  *)
(* of one keyspace with a point on chromosome "1" and a region on "2"       *)

\* the rows of the source file of table id; a load inserts a prefix of them
DeleteRows(id) ==
    << <<SNPLocus("1", 100), Record(id, 0, 10)>>,
       <<RegionLocus("2", 19990, 20010), Record(id, 200, 10)>> >>

InitDelete == InitCalls

\* the tables are registered and loaded first; then they are deleted
NextDelete ==
    \/ \E table \in CallTables :
          /\ hist.started = 0
          /\ register_table(table)
          /\ UNCHANGED <<hist, reader, probe, calls>>
    \/ \E id \in DOMAIN tableMeta :
          \E n \in 1..Len(DeleteRows(id)) :
              /\ hist.started = 0
              /\ insert_records("k1", SubSeq(DeleteRows(id), 1, n))
              /\ UNCHANGED <<hist, reader, probe, calls>>
    \/ \E id \in DOMAIN tableMeta :
          /\ calls["c1"].pc = "idle"
          /\ delete_records(id)
          /\ UNCHANGED <<hist, reader, probe, calls>>
    \/ \E id \in DOMAIN tableMeta : delete_enter("c1", id)
    \/ delete_hget("c1")
    \/ delete_path("c1")
    \/ delete_meta("c1")
    \/ crash("c1")

SpecDelete == InitDelete /\ [][NextDelete]_vars

\* C17: delete_table removes the registry entries last and can be retried: while
\* delete_table(t) is between its steps get_table(t) returns t's metadata; and
\* a delete_table(t) run again after one that stopped in the middle does not
\* raise and ends with t's metadata, path mapping and records gone
C17_RetryCompletes ==
    [][\A c \in Clients :
          /\ (calls'[c].pc # "idle" /\ calls'[c].op = "delete_table") =>
                /\ calls'[c].id \in DOMAIN tableMeta'
                /\ DOMAIN tableMeta'[calls'[c].id] = {Fields[i] : i \in DOMAIN Fields}
          /\ \A t \in hist.interrupted :
                /\ delete_enter(c, t) => calls'[c].pc = "hget"
                /\ (delete_hget(c) /\ calls[c].id = t) => calls'[c].pc = "delpath"
                /\ (delete_meta(c) /\ calls[c].id = t) =>
                      /\ t \notin DOMAIN tableMeta'
                      /\ calls[c].path \notin DOMAIN tablePath'
                      /\ Stored(data', t) = {}]_vars

\* C18 as stated: each store transaction of a deletion removes records from
\* one chromosome, so a table with records on two chromosomes is seen with one
\* of them cleared and the other not
C18_PerChromosome == Cardinality(hist.cleared) <= 1

\* C18 amended: delete_records and delete_table remove the table's records in
\* one store transaction for all chromosomes: a deletion that raises leaves
\* the records of every chromosome as they were, and one that does not raise
\* has removed every matching record of every chromosome structure it scanned
C18_OneTransaction ==
    [][\A c \in Clients, t \in DOMAIN tableMeta :
          delete_enter(c, t) =>
              IF calls'[c].pc = "idle" THEN data' = data
              ELSE \A ch \in ChrNames :
                    LET k == <<tableMeta[t].key, ch>> IN
                    /\ scanMatch(DOMAIN chrKey'[k].zset, matchPattern(t)) = {}
                    /\ chrKey[k].type = "set" =>
                          \A b \in chrKey[k].set :
                              scanMatch(bucketKey'[b], matchPattern(t)) = {}]_vars

\* a delete_table has removed a table's point on chromosome "1" and its region
\* on chromosome "2" in its one transaction, next to another table's records
C18_Witness ==
    /\ hist.cleared = {"1", "2"}
    /\ calls["c1"].pc = "hget"
    /\ Held("k1", "1") # {} /\ Held("k1", "2") # {}

-----------------------------------------------------------------------------
\* SpecScan: delete_records step by step. The scans (EXISTS, TYPE, ZSCAN,
\* SSCAN) are sent on the connection as the loop runs, the removals they find
\* are queued in the pipeline, and EXEC is sent after the loop; other clients'
\* insert_records run in between.

\* the commands delete_records queues for chromosome i of the list
chromosomeCommands(key, match, i) ==
    LET k == <<key, chromosomes[i]>>
    IN  IF ~exists(data, k) THEN <<>>
        ELSE IF type(data, k) = "zset"
          THEN <<ZREM(k, scanMatch(DOMAIN chrKey[k].zset, match))>>
          ELSE bucketRemovals(k, match, 0, MaxCoord \div BucketWidth)

\* the frame of a delete_records in its loop: the next chromosome i and the
\* commands queued so far
ScanFrame(op, table, id, i, cmds) ==
    [op |-> op, pc |-> "scan", table |-> table, id |-> id, path |-> "", i |-> i,
     cmds |-> cmds]

\* delete_records (called directly or by delete_table): get_table, then
\* pipe.multi()
scan_enter(c, op, id) ==
    /\ calls[c].pc = "idle"
    /\ hist.started < MaxCalls
    /\ LET table == get_table(id)
       IN  IF table = None THEN Return(c, op, id, "AttributeError")
           ELSE IF raisedBy(table) # "" THEN Return(c, op, id, raisedBy(table))
           ELSE /\ calls' = [calls EXCEPT ![c] = ScanFrame(op, table, id, 1, <<>>)]
                /\ UNCHANGED ret
    /\ hist' = Started
    /\ UNCHANGED <<store, reader, probe>>

\* one round of the loop: the chromosome key is looked up and scanned, and the
\* removals of the matching members are queued
scan_chromosome(c) ==
    /\ calls[c].pc = "scan"
    /\ calls[c].i <= Len(chromosomes)
    /\ calls' = [calls EXCEPT
                    ![c].i = @ + 1,
                    ![c].cmds = @ \o chromosomeCommands(calls[c].table.key,
                                        matchPattern(calls[c].id), calls[c].i)]
    /\ UNCHANGED <<store, ret, hist, reader, probe>>

\* pipe.execute() after the loop; delete_records returns, delete_table goes on
\* to the registry keys
scan_execute(c) ==
    /\ calls[c].pc = "scan"
    /\ calls[c].i > Len(chromosomes)
    /\ LET r == execute(data, calls[c].cmds)
       IN  /\ chrKey' = r.db.chr
           /\ bucketKey' = r.db.bucket
           /\ IF r.err THEN Return(c, calls[c].op, calls[c].id, "ResponseError")
              ELSE IF calls[c].op = "delete_records"
                THEN Return(c, calls[c].op, calls[c].id, "")
                ELSE /\ calls' = [calls EXCEPT ![c] =
                            Frame("delete_table", "hget", None, calls[c].id, "", 0)]
                     /\ UNCHANGED ret
    /\ UNCHANGED <<registry, hist, reader, probe>>

InitScan == InitCalls

\* the tables are registered first; loads and deletions then interleave
NextScan ==
    \/ \E table \in CallTables :
          /\ hist.started = 0
          /\ register_table(table)
          /\ UNCHANGED <<hist, reader, probe, calls>>
    \/ \E id \in DOMAIN tableMeta :
          \E n \in 1..Len(DeleteRows(id)) :
              /\ insert_records("k1", SubSeq(DeleteRows(id), 1, n))
              /\ UNCHANGED <<hist, reader, probe, calls>>
    \/ \E id \in DOMAIN tableMeta, op \in {"delete_records", "delete_table"} :
          scan_enter("c1", op, id)
    \/ scan_chromosome("c1")
    \/ scan_execute("c1")
    \/ delete_hget("c1")
    \/ delete_path("c1")
    \/ delete_meta("c1")

SpecScan == InitScan /\ [][NextScan]_vars

\* the stored records that carry table id
RecordsOf(id) ==
    UNION {{m \in Held(key, c) : loads(m)[1] = id} : key \in Keys, c \in ChrNames}

\* C21: a deletion of table t is complete with respect to concurrent inserts:
\* when its removal transaction executes without error no record of t that was
\* stored before the transaction is stored after it, and when delete_table(t)
\* has removed the registry entry no stored record carries t
C21_DeletionComplete ==
    [][\A c \in Clients :
          \E t \in {IF calls[c].pc = "idle" THEN 0 ELSE calls[c].id} :
              /\ (scan_execute(c) /\ ~execute(data, calls[c].cmds).err) =>
                    RecordsOf(t)' = {}
              /\ delete_meta(c) => RecordsOf(t)' = {}]_vars

====
